---- MODULE Spec2Model ----
(***************************************************************************)
(* The training app of quantum-object-trader: the progress store           *)
(* (engine/progress.js), the quiz and exercise checkers                    *)
(* (engine/exercises.js), the tutorial viewer (showTutorial) and the       *)
(* bootstrap of TrainingApp, as one state machine over the page's DOM,     *)
(* its localStorage and the handlers suspended at an await.                *)
(***************************************************************************)
EXTENDS Integers, FiniteSets, Sequences, TLC

\* ------------------------------------------------------------------ bounds
\* The largest number of prerequisite checkboxes of a manifest in Spec, and
\* in SpecChecklist.
MaxControls == 2
MaxChecklist == 8
\* The largest number of handler invocations suspended at an await in Spec,
\* and in SpecQuiz.
MaxCalls == 1
MaxOverlap == 2
\* The largest number of showTutorial invocations suspended at a fetch.
MaxShows == 2
\* The largest number of levels of a manifest.
MaxLevels == 2

\* ------------------------------------------------------------------ content
\* The identifiers initializeUI gives the prerequisite checkboxes.
ControlIds ==
    1..(IF MaxControls > MaxChecklist THEN MaxControls ELSE MaxChecklist)

\* The questions of the quiz file and the options of each question.
Questions == {"q1", "q2"}
Options == {"a", "b"}

\* The quiz definition file: per question the correct option and the two
\* configured feedback texts.
QuizData ==
    [q \in Questions |->
        IF q = "q1"
        THEN [correctAnswer |-> "b",
              feedback |-> [correct |-> "Nice!", incorrect |-> "Try again."]]
        ELSE [correctAnswer |-> "a",
              feedback |-> [correct |-> "Right.", incorrect |-> "Wrong."]]]

\* What the fetch of the quiz file can give checkAnswer: a non-success
\* response, a file without the question, or a file with the question.
QuizFetchOutcomes == {"http_error", "no_question", "found"}

\* A markdown text, line by line: a line of prose, an empty line, or the
\* fence that opens or closes a code block.
MarkdownLines == {"text", "", "~~~"}
\* The tutorial file the server serves in the specifications that are not
\* about the renderer.
SampleTutorial == <<"text", "", "~~~", "text", "~~~">>

\* ------------------------------------------------------------------ markdown.js
\* HTML is a sequence of tokens: the line break, tags, and pieces of text
\* that hold no line break.
Html ==
    [newline |-> "\n", openCode |-> "<pre><code>",
     hljsOpenCode |-> "<pre><code class=hljs>", closeCode |-> "</code></pre>",
     openParagraph |-> "<p>", closeParagraph |-> "</p>",
     lineBreak |-> "<br />"]
Fence == "~~~"

\* The converter's fenced code blocks: an opening fence is closed by the
\* first fence that stands at least two lines below it; 0 when there is
\* none.
closingFence(md, i) ==
    LET later == {j \in (i + 2)..Len(md) : md[j] = Fence}
    IN  IF later = {} THEN 0
        ELSE CHOOSE j \in later : \A k \in later : j <= k
opensCode(md, i) == md[i] = Fence /\ closingFence(md, i) # 0
\* The converter drops the empty lines at the start and at the end of a
\* code block.
RECURSIVE stripBlank(_)
stripBlank(lines) ==
    IF lines = <<>> THEN <<>>
    ELSE IF Head(lines) = "" THEN stripBlank(Tail(lines))
    ELSE IF lines[Len(lines)] = ""
         THEN stripBlank(SubSeq(lines, 1, Len(lines) - 1))
    ELSE lines
\* Lines as text: a line break between one line and the next, an empty
\* line being no text at all; in a paragraph the line break is preceded
\* by a <br />.
RECURSIVE joinLines(_, _)
joinLines(lines, separator) ==
    LET first == IF Head(lines) = "" THEN <<>> ELSE <<Head(lines)>>
    IN  IF lines = <<>> THEN <<>>
        ELSE IF Len(lines) = 1 THEN first
        ELSE first \o separator \o joinLines(Tail(lines), separator)
codeBlock(lines) ==
    <<Html.openCode>> \o joinLines(stripBlank(lines), <<Html.newline>>)
        \o <<Html.newline, Html.closeCode>>
paragraph(lines) ==
    <<Html.openParagraph>>
        \o joinLines(lines, <<Html.lineBreak, Html.newline>>)
        \o <<Html.closeParagraph>>
\* The last line of the paragraph that starts at line i: it ends before an
\* empty line and before a code block.
paragraphEnd(md, i) ==
    CHOOSE k \in i..Len(md) :
        /\ \A j \in (i + 1)..k : md[j] # "" /\ ~opensCode(md, j)
        /\ k = Len(md) \/ md[k + 1] = "" \/ opensCode(md, k + 1)
\* converter.makeHtml on the lines from i on: the blocks, one line break
\* between two of them.
RECURSIVE makeHtmlFrom(_, _)
makeHtmlFrom(md, i) ==
    IF i > Len(md) THEN <<>>
    ELSE IF md[i] = "" THEN makeHtmlFrom(md, i + 1)
    ELSE LET last == IF opensCode(md, i) THEN closingFence(md, i)
                     ELSE paragraphEnd(md, i)
             block == IF opensCode(md, i)
                      THEN codeBlock(SubSeq(md, i + 1, last - 1))
                      ELSE paragraph(SubSeq(md, i, last))
             rest == makeHtmlFrom(md, last + 1)
         IN  IF rest = <<>> THEN block ELSE block \o <<Html.newline>> \o rest
\* The output extension: every code block is highlighted, its line breaks
\* as they were, and given the class hljs.
highlighted(html) ==
    [k \in 1..Len(html) |->
        IF html[k] = Html.openCode THEN Html.hljsOpenCode ELSE html[k]]
makeHtml(md) == highlighted(makeHtmlFrom(md, 1))
\* html.replace(/\n\n+/g, '\n'): of a run of line breaks the first stays.
RECURSIVE replaceDoubleBreaks(_)
replaceDoubleBreaks(html) ==
    IF Len(html) < 2 THEN html
    ELSE IF html[1] = Html.newline /\ html[2] = Html.newline
         THEN replaceDoubleBreaks(Tail(html))
    ELSE <<Head(html)>> \o replaceDoubleBreaks(Tail(html))
parseMarkdown(md) == replaceDoubleBreaks(makeHtml(md))

\* The markdown files the renderer is given: up to MaxLines lines.
MaxLines == 5
MarkdownTexts == UNION {[1..n -> MarkdownLines] : n \in 0..MaxLines}

\* ------------------------------------------------------------------ storage
ProgressKey == "quantumTraderProgress"
QuizKey(q) == "quiz_" \o q
ConfigKey == "config_exercise"
AlgoKey == "algo_exercise"
QuizKeys == {QuizKey(q) : q \in Questions}
CreditKeys == QuizKeys \cup {ConfigKey, AlgoKey}
StorageKeys == {ProgressKey} \cup CreditKeys

\* Stored values: null (no such key), the string 'completed', or the JSON
\* array of checkbox ids.
Null == [tag |-> "null", ids |-> {}]
Completed == [tag |-> "completed", ids |-> {}]
JsonIds(S) == [tag |-> "json", ids |-> S]
\* A stored text that is not the JSON of an array.
Garbage == [tag |-> "garbage", ids |-> {}]

EmptyStorage == [k \in StorageKeys |-> Null]
getItem(ls, k) == ls[k]
setItem(ls, k, v) == [ls EXCEPT ![k] = v]
clear(ls) == [k \in StorageKeys |-> Null]
\* JavaScript truthiness of a getItem result: null is falsy, every stored
\* string here ('completed', '[]', '["..."]') is truthy.
Truthy(v) == v.tag # "null"
KeysPresent(ls) == {k \in StorageKeys : ls[k].tag # "null"}

\* ------------------------------------------------------------------ progress.js
\* Math.round(completed / total * 100): 0/0 is NaN, k/0 is Infinity, and
\* Math.round rounds to the nearest integer, a half upwards.
NaN == [kind |-> "NaN", n |-> 0]
Infinity == [kind |-> "Infinity", n |-> 0]
Num(n) == [kind |-> "num", n |-> n]
StaticText == [kind |-> "static", n |-> 0]

\* Math.floor in place of Math.round.
PercentageFloor(completed, total) ==
    IF total = 0
    THEN (IF completed = 0 THEN NaN ELSE Infinity)
    ELSE Num((100 * completed) \div total)

Percentage(completed, total) ==
    IF total = 0
    THEN (IF completed = 0 THEN NaN ELSE Infinity)
    ELSE Num((200 * completed + total) \div (2 * total))

\* updateProgressBar: the bar width and the text both show the percentage.
updateProgressBar(p) == Percentage(p.completedItems, p.totalItems)

\* A count taken before anything is rendered finds no checkbox.
countBeforeRender(ctrls) == 0
\* countTotalItems: the number of checkboxes in the document.
countTotalItems(ctrls) == Cardinality(ctrls)

\* loadProgress: every saved id that names a live checkbox is checked and
\* counted.
LoadedIds(ls, ctrls) ==
    IF Truthy(getItem(ls, ProgressKey))
    THEN {i \in getItem(ls, ProgressKey).ids : i \in ctrls}
    ELSE {}
\* JSON.parse, or forEach on what it returns, throws on a stored text that
\* is not the JSON of an array.
\* A loadProgress that reads whatever is stored.
loadNeverThrows(ls) == FALSE
loadThrows(ls) == getItem(ls, ProgressKey) = Garbage
loadChecked(ls, ctrls, chk) == chk \cup LoadedIds(ls, ctrls)
loadCompleted(ls, ctrls, completed) == completed + Cardinality(LoadedIds(ls, ctrls))

\* A save that adds the checked ids to the stored list.
saveProgressAppending(ls, chk) ==
    setItem(ls, ProgressKey, JsonIds(chk \cup getItem(ls, ProgressKey).ids))
\* saveProgress: the ids of the checked checkboxes, as one JSON array.
saveProgress(ls, chk) == setItem(ls, ProgressKey, JsonIds(chk))

\* updateProgress: the counter is the number of checked checkboxes.
countChecked(chk) == Cardinality(chk)

\* A click on checkbox i flips it.
toggled(chk, i) == IF i \in chk THEN chk \ {i} ELSE chk \cup {i}

\* ------------------------------------------------------------------ exercises.js
\* checkAnswer after its fetch: the feedback it writes.
NoFeedback == [textContent |-> "", className |-> "feedback"]
ErrorFeedback ==
    [textContent |-> "Error checking answer. Please try again.",
     className |-> "feedback error"]
answerMatches(q, a) == a = QuizData[q].correctAnswer
checkAnswerFeedback(q, a, outcome) ==
    IF outcome # "found" THEN ErrorFeedback
    ELSE IF answerMatches(q, a)
         THEN [textContent |-> QuizData[q].feedback.correct,
               className |-> "feedback correct"]
         ELSE [textContent |-> QuizData[q].feedback.incorrect,
               className |-> "feedback incorrect"]

\* checkAnswer credits the question when the answer matches and the
\* question's storage flag is not set yet; it sets the flag at once and
\* increments the counter after the await of the progress module.
\* The credit without the look at the question's flag.
checkAnswerCreditsUnflagged(ls, q, a, outcome) ==
    outcome = "found" /\ answerMatches(q, a)
\* The credit without the comparison of the answer.
checkAnswerCreditsAnyAnswer(ls, q, a, outcome) ==
    outcome = "found" /\ ~Truthy(getItem(ls, QuizKey(q)))

checkAnswerCredits(ls, q, a, outcome) ==
    /\ outcome = "found"
    /\ answerMatches(q, a)
    /\ ~Truthy(getItem(ls, QuizKey(q)))
checkAnswerStorage(ls, q, a, outcome) ==
    IF checkAnswerCredits(ls, q, a, outcome)
    THEN setItem(ls, QuizKey(q), Completed)
    ELSE ls

\* A configuration text, as checkConfig reads it: whether it holds the
\* placeholder '???', and per key whether the key occurs and how the number
\* after it is written (whole part, and the digits after the dot if any).
ConfigParams ==
    {"max_position_size", "max_portfolio_exposure", "daily_loss_limit",
     "max_drawdown"}
NoNumber == [written |-> FALSE, whole |-> 0, dot |-> FALSE, milli |-> 0]
Whole(n) == [written |-> TRUE, whole |-> n, dot |-> FALSE, milli |-> 0]
Decimal(n, m) == [written |-> TRUE, whole |-> n, dot |-> TRUE, milli |-> m]
ConfigTextOf(ph, keys, size, exposure, loss, drawdown) ==
    [placeholders |-> ph, keys |-> keys, position_size |-> size,
     portfolio_exposure |-> exposure, daily_loss |-> loss,
     drawdown |-> drawdown]

\* parseFloat of what /key:\s*(\d+)/ captures: the digits before any dot;
\* NaN when no digits follow the key.
NotANumber == [isNaN |-> TRUE, milli |-> 0]
Float(m) == [isNaN |-> FALSE, milli |-> m]
matchDigits(text, key, w) ==
    IF key \in text.keys /\ w.written THEN Float(1000 * w.whole)
    ELSE NotANumber
\* parseFloat of what /key:\s*(0\.\d+)/ captures: a number written as 0,
\* a dot and digits; NaN for every other spelling.
matchFraction(text, key, w) ==
    IF key \in text.keys /\ w.written /\ w.whole = 0 /\ w.dot
    THEN Float(w.milli)
    ELSE NotANumber
configValues(text) ==
    [position_size |->
        matchDigits(text, "max_position_size", text.position_size),
     portfolio_exposure |->
        matchFraction(text, "max_portfolio_exposure", text.portfolio_exposure),
     daily_loss |-> matchDigits(text, "daily_loss_limit", text.daily_loss),
     drawdown |-> matchFraction(text, "max_drawdown", text.drawdown)]
\* x > 0 && x <= hi, false for NaN.
within(x, hi) == ~x.isNaN /\ x.milli > 0 /\ x.milli <= 1000 * hi

\* checkConfig's verdict on a text.
checkConfigVerdict(text) ==
    LET hasPositionLimits ==
            /\ "max_position_size" \in text.keys
            /\ "max_portfolio_exposure" \in text.keys
        hasLossLimits ==
            /\ "daily_loss_limit" \in text.keys
            /\ "max_drawdown" \in text.keys
        values == configValues(text)
    IN  IF text.placeholders THEN "placeholders"
        ELSE IF ~hasPositionLimits \/ ~hasLossLimits THEN "incomplete"
        ELSE IF /\ within(values.position_size, 1000)
                /\ within(values.portfolio_exposure, 1)
                /\ within(values.daily_loss, 10000)
                /\ within(values.drawdown, 1)
             THEN "good"
             ELSE "range"
checkConfigFeedback(text) ==
    LET v == checkConfigVerdict(text)
    IN  IF v = "placeholders"
        THEN [textContent |-> "Please replace all ??? with appropriate values.",
              className |-> "feedback incorrect"]
        ELSE IF v = "incomplete"
        THEN [textContent |-> "Configuration is incomplete. Make sure to include all required parameters.",
              className |-> "feedback incorrect"]
        ELSE IF v = "good"
        THEN [textContent |-> "Configuration looks good! The values are within reasonable ranges.",
              className |-> "feedback correct"]
        ELSE [textContent |-> "Some values appear to be outside reasonable ranges. Please review your configuration.",
              className |-> "feedback incorrect"]

\* An algorithm text, as checkAlgorithm reads it: the substrings it holds.
AlgoTokens ==
    {"???", "ma_period", "rolling().mean()", "rolling().average()",
     "std_dev", "rolling().std()", "upper_band", "lower_band"}
\* A check of the bands that is content with one of the two.
checkAlgorithmVerdictOneBand(text) ==
    LET hasMA ==
            /\ "ma_period" \in text
            /\ ("rolling().mean()" \in text \/ "rolling().average()" \in text)
        hasStdDev == "std_dev" \in text /\ "rolling().std()" \in text
        hasBands == "upper_band" \in text \/ "lower_band" \in text
    IN  IF "???" \in text THEN "placeholders"
        ELSE IF ~hasMA \/ ~hasStdDev \/ ~hasBands THEN "incomplete"
        ELSE "good"
checkAlgorithmVerdict(text) ==
    LET hasMA ==
            /\ "ma_period" \in text
            /\ ("rolling().mean()" \in text \/ "rolling().average()" \in text)
        hasStdDev == "std_dev" \in text /\ "rolling().std()" \in text
        hasBands == "upper_band" \in text /\ "lower_band" \in text
    IN  IF "???" \in text THEN "placeholders"
        ELSE IF ~hasMA \/ ~hasStdDev \/ ~hasBands THEN "incomplete"
        ELSE "good"
checkAlgorithmFeedback(text) ==
    LET v == checkAlgorithmVerdict(text)
    IN  IF v = "placeholders"
        THEN [textContent |-> "Please replace all ??? with appropriate code.",
              className |-> "feedback incorrect"]
        ELSE IF v = "incomplete"
        THEN [textContent |-> "Implementation incomplete. Make sure to include moving average, standard deviation, and bands calculation.",
              className |-> "feedback incorrect"]
        ELSE [textContent |-> "Algorithm implementation looks good! The components are properly structured.",
              className |-> "feedback correct"]

\* An exercise is credited when its check passes and its storage flag is
\* not set yet; the flag is set at once, the counter incremented after the
\* await of the progress module.
\* The credit without the look at the exercise's flag.
exerciseCreditsUnflagged(ls, key, verdict) == verdict = "good"
exerciseCredits(ls, key, verdict) ==
    verdict = "good" /\ ~Truthy(getItem(ls, key))
exerciseStorage(ls, key, verdict) ==
    IF exerciseCredits(ls, key, verdict) THEN setItem(ls, key, Completed)
    ELSE ls

\* The texts submitted to the two exercise checkers.
GoodConfig ==
    ConfigTextOf(FALSE, ConfigParams, Whole(100), Decimal(0, 500),
                 Whole(500), Decimal(0, 100))
OversizeConfig ==
    ConfigTextOf(FALSE, ConfigParams, Whole(1500), Decimal(0, 500),
                 Whole(500), Decimal(0, 100))
IncompleteConfig ==
    ConfigTextOf(FALSE, ConfigParams \ {"max_drawdown"}, Whole(100),
                 Decimal(0, 500), Whole(500), NoNumber)
ConfigTexts == {GoodConfig, OversizeConfig, IncompleteConfig}
GoodAlgo == AlgoTokens \ {"???", "rolling().average()"}
NoBandsAlgo == GoodAlgo \ {"upper_band"}
AlgoTexts == {GoodAlgo, NoBandsAlgo}
\* The ways a user writes the four values: left out, whole, or with a dot;
\* at, inside and beyond the ends of each range.
SizeSpellings ==
    {NoNumber, Whole(0), Whole(1000), Whole(1001), Whole(1500),
     Decimal(0, 500)}
FractionSpellings ==
    {NoNumber, Decimal(0, 0), Decimal(0, 500), Whole(1), Decimal(1, 500)}
LossSpellings == {Whole(0), Whole(10000), Whole(10001)}
\* The texts a user submits to checkConfig: the four keys with every
\* combination of spellings, the template's placeholder left in, and a
\* key left out.
ConfigInputs ==
    {ConfigTextOf(FALSE, ConfigParams, s, e, l, d) :
        s \in SizeSpellings, e \in FractionSpellings,
        l \in LossSpellings, d \in FractionSpellings}
    \cup {ConfigTextOf(TRUE, ConfigParams, Whole(100), Decimal(0, 500),
                       Whole(500), Decimal(0, 100))}
    \cup {ConfigTextOf(FALSE, ConfigParams \ {k}, Whole(100), Decimal(0, 500),
                       Whole(500), Decimal(0, 100)) : k \in ConfigParams}

\* What a text area holds when its exercise is rendered: the template,
\* every value still a placeholder.
ConfigTemplate ==
    ConfigTextOf(TRUE, ConfigParams, NoNumber, NoNumber, NoNumber, NoNumber)
AlgoTemplate == {"???", "ma_period", "std_dev", "upper_band", "lower_band"}
Templates ==
    [e \in {"adv-config", "algo"} |->
        IF e = "adv-config" THEN ConfigTemplate ELSE AlgoTemplate]

\* ------------------------------------------------------------------ showTutorial
\* The topic panels initializeUI renders, and the kind course.json gives
\* each topic.
Topics == {"introduction", "trading-modes", "basic-config", "adv-config"}
TopicKind ==
    [t \in Topics |->
        IF t = "introduction" THEN "tutorial"
        ELSE IF t = "trading-modes" THEN "quiz" ELSE "exercise"]

\* The quiz topics of the manifest, and its topics: those the viewer is
\* exercised with and the second quiz.
ManifestTopics == Topics \cup {"trading-modes", "tech-analysis-quiz"}
TopicType ==
    [t \in ManifestTopics |-> IF t \in Topics THEN TopicKind[t] ELSE "quiz"]
\* The content file each topic declares in the manifest.
TopicContent ==
    [t \in ManifestTopics |->
        CASE t = "introduction" -> "introduction.md"
          [] t = "trading-modes" -> "trading-modes-quiz.json"
          [] t = "basic-config" -> "basic-config.json"
          [] t = "adv-config" -> "advanced-config.json"
          [] t = "tech-analysis-quiz" -> "technical-analysis-quiz.json"]

\* The manifest TrainingApp.initialize fetches, and the one showTutorial
\* fetches.
bootManifestPath == "./courses/quantum-trading/course.json"
manifestPath == "./courses/quantum-object-trading/course.json"
\* The directory showTutorial takes a topic's content from, by its type.
contentDirectory(type) == IF type = "tutorial" THEN "tutorials" ELSE "exercises"
\* The content file showTutorial fetches for a topic.
contentPath(id) ==
    "./courses/quantum-object-trading/content/"
        \o contentDirectory(TopicType[id]) \o "/" \o TopicContent[id]
\* The quiz file checkAnswer fetches for a question whose feedback element
\* lies in the panel quizId.
quizPath(quizId) ==
    "./courses/quantum-trading/content/exercises/" \o quizId \o "-quiz.json"

\* What the fetch of course.json can give showTutorial: a non-success
\* response, a manifest without the topic, or a manifest with it.
CourseFetchOutcomes == {"http_error", "absent", "found"}
\* What the fetch of the content file can give: a non-success response, a
\* text that JSON.parse rejects, or the topic's content.
ContentFetchOutcomes == {"http_error", "malformed", "ok"}

\* A panel: style.display, dataset.loaded and what innerHTML holds.
EmptyContent == [kind |-> "empty", topic |-> "-"]
ErrorContent == [kind |-> "error", topic |-> "-"]
Rendered(id) ==
    [kind |-> IF TopicKind[id] = "tutorial" THEN "markdown" ELSE TopicKind[id],
     topic |-> id]
EmptyPanel == [display |-> "", loaded |-> FALSE, content |-> EmptyContent]
\* The HTML in the panel of a tutorial whose markdown file read text: what
\* parseMarkdown made of it, once the content is rendered.
tutorialHtml(ps, id, text) ==
    IF TopicKind[id] = "tutorial" /\ ps[id].content = Rendered(id)
    THEN parseMarkdown(text) ELSE <<>>

\* Hiding that also forgets what the other panels had loaded.
hideOthersUnloading(ps, id) ==
    [t \in Topics |->
        IF t # id THEN [ps[t] EXCEPT !.display = "none", !.loaded = FALSE]
        ELSE ps[t]]
\* Lines 79-83: every panel but id is hidden.
hideOthers(ps, id) ==
    [t \in Topics |-> IF t # id THEN [ps[t] EXCEPT !.display = "none"] ELSE ps[t]]
\* Line 183: the panel's visibility is toggled.
toggleDisplay(ps, id) ==
    [ps EXCEPT ![id].display = IF @ = "block" THEN "none" ELSE "block"]
\* Line 86: the content is fetched unless the panel's loaded flag is set.
needsFetch(ps, id) == ~ps[id].loaded
\* Lines 176-179: the catch block writes the inline error message.
showError(ps, id) == [ps EXCEPT ![id].content = ErrorContent]
\* A rendering that keeps an error message already in the panel.
showContentKeepingError(ps, id) ==
    IF ps[id].content = ErrorContent THEN [ps EXCEPT ![id].loaded = TRUE]
    ELSE [ps EXCEPT ![id].content = Rendered(id), ![id].loaded = TRUE]
\* Lines 121-175: the content is rendered and the panel marked as loaded.
showContent(ps, id) ==
    [ps EXCEPT ![id].content = Rendered(id), ![id].loaded = TRUE]
\* Whether the text of the content file renders: markdown always does, a
\* quiz or an exercise when JSON.parse accepts it.
renders(id, outcome) ==
    \/ outcome \in {"ok", "other_shape"}
    \/ (outcome = "malformed" /\ TopicKind[id] = "tutorial")

\* The content file may also hold JSON of the other shape than the topic's
\* type suggests: a quiz topic's file without questions, an exercise
\* topic's file with questions.
DispatchOutcomes == ContentFetchOutcomes \cup {"other_shape"}
\* Whether the parsed JSON has questions.
hasQuestions(id, outcome) == (TopicKind[id] = "quiz") = (outcome # "other_shape")
\* A dispatch on the topic's type alone.
renderingByType(id, outcome) ==
    IF TopicKind[id] = "tutorial" THEN "markdown" ELSE TopicKind[id]
\* Lines 122-172: markdown for a tutorial; for every other type the quiz
\* template when the JSON has questions, the exercise template otherwise.
rendering(id, outcome) ==
    IF TopicKind[id] = "tutorial" THEN "markdown"
    ELSE IF hasQuestions(id, outcome) THEN "quiz" ELSE "exercise"
RenderedAs(id, outcome) == [kind |-> rendering(id, outcome), topic |-> id]
showOtherShape(ps, id) ==
    [ps EXCEPT ![id].content = RenderedAs(id, "other_shape"),
               ![id].loaded = TRUE]
\* The quiz template: one radio input per option of every question, named
\* after the question, with the call its change listener makes.
radioInputs(content) ==
    IF content.kind = "quiz"
    THEN {[name |-> "q" \o q, question |-> q, answer |-> a,
           change |-> <<"checkAnswer", q, a>>] :
             q \in Questions, a \in Options}
    ELSE {}
\* The exercise template: the text area, the check button and the
\* feedback element.
exerciseElements(content) ==
    IF content.kind = "exercise"
    THEN {[tag |-> "textarea", id |-> content.topic \o "-input"],
          [tag |-> "button", id |-> "-"],
          [tag |-> "div", id |-> content.topic \o "-feedback"]}
    ELSE {}

\* ------------------------------------------------------------------ state
VARIABLES
    prerequisites,  \* the number of prerequisite strings in the manifest
    appPc,          \* "init" until TrainingApp.initialize has run, then
                    \* "ready", or "failed" when it caught an error
    controls,       \* the ids of the checkboxes in the document
    checked,        \* the ids of the checked checkboxes
    localStorage,   \* durable storage, key -> value
    progress,       \* the progress object of progress.js
    progressText,   \* what the progress bar and text show
    feedback,       \* the feedback elements, by the id before '-feedback'
    answerCalls,    \* checkAnswer invocations awaiting their fetch
    selected,       \* per question the option whose radio input is checked
    tutorialText,   \* the markdown the server serves for a tutorial
    pendingImports, \* invocations awaiting import('./progress.js')
    panels,         \* the topic panels
    showCalls,      \* showTutorial invocations awaiting a fetch
    levels,         \* the number of levels in the manifest
    activeNav,      \* the navigation buttons of class 'active', by level
    activeLevels,   \* the level panels of class 'active', by level
    textAreas,      \* the value of the exercises' text areas
    thrown,         \* the handlers that have rejected to their caller
    startupLog,     \* the steps of the startup sequence that have run
    lastCall        \* the handler step that ran last

viewer == <<panels, showCalls>>
navigation == <<levels, activeNav, activeLevels>>
page == <<navigation, textAreas, thrown, startupLog>>
vars == <<prerequisites, appPc, controls, checked, localStorage, progress,
          progressText, feedback, answerCalls, selected, tutorialText,
          pendingImports, panels, showCalls, levels, activeNav, activeLevels, textAreas, thrown,
          startupLog, lastCall>>

ShowStages == Topics \X {"course", "content"}
NoShows == [c \in ShowStages |-> 0]
ShowsInFlight ==
    LET Sum[S \in SUBSET ShowStages] ==
            IF S = {} THEN 0
            ELSE LET c == CHOOSE x \in S : TRUE
                 IN showCalls[c] + Sum[S \ {c}]
    IN Sum[ShowStages]

FeedbackIds == Questions \cup {"adv-config", "algo"}
Submissions == Questions \X Options
NoCalls == [s \in Submissions |-> 0]
\* No radio input of a question is checked when its quiz is rendered.
NoSelection == [q \in Questions |-> "-"]
InFlight == LET Sum[S \in SUBSET Submissions] ==
                    IF S = {} THEN 0
                    ELSE LET s == CHOOSE x \in S : TRUE
                         IN answerCalls[s] + Sum[S \ {s}]
            IN Sum[Submissions]
Suspended == InFlight + pendingImports

Step(op, q, a, r) == [op |-> op, q |-> q, a |-> a, r |-> r]

\* The panel that holds the feedback elements of the quiz questions.
QuizOf(q) == "trading-modes"
\* The file a step requests: the page load is followed by the fetch of the
\* boot manifest, showTutorial for an unloaded panel fetches its manifest
\* and, the topic found, the content file; checkAnswer fetches the quiz
\* file named after the panel of the question; "-" for a step that sends
\* no request.
fetchOf(call) ==
    CASE call.op = "load" -> bootManifestPath
      [] call.op = "showTutorial" /\ call.r = "fetch" -> manifestPath
      [] call.op = "showTutorial" /\ call.a = "course" /\ call.r = "found" ->
            contentPath(call.q)
      [] call.op = "checkAnswer" /\ call.r = "fetch" -> quizPath(QuizOf(call.q))
      [] OTHER -> "-"

\* A freshly loaded page: the module state of progress.js, an empty
\* document, nothing in flight.
FreshPage ==
    /\ appPc = "init"
    /\ controls = {}
    /\ checked = {}
    /\ progress = [totalItems |-> 0, completedItems |-> 0]
    /\ progressText = StaticText
    /\ feedback = [e \in FeedbackIds |-> NoFeedback]
    /\ answerCalls = NoCalls
    /\ selected = NoSelection
    /\ pendingImports = 0
    /\ panels = [t \in Topics |-> EmptyPanel]
    /\ showCalls = NoShows
    /\ activeNav = {}
    /\ activeLevels = {}
    /\ textAreas = Templates
    /\ thrown = {}
    /\ startupLog = <<>>

\* A page freshly loaded from a manifest of MaxLevels levels, with nothing
\* in durable storage.
Init ==
    /\ prerequisites \in 0..MaxControls
    /\ levels = MaxLevels
    /\ localStorage = EmptyStorage
    /\ tutorialText = SampleTutorial
    /\ FreshPage
    /\ lastCall = Step("load", "-", "-", "-")

\* What the fetch of the bootstrap manifest can give initialize: a
\* response that is no JSON, a JSON without the levels array, or the
\* manifest.
BootOutcomes == {"http_error", "no_levels", "ok"}

\* initializeUI: the first level's button and panel are rendered with the
\* class 'active'.
renderedActive(lv) == IF lv > 0 THEN {1} ELSE {}
\* initializeUI: the prerequisite checkboxes of the first level.
renderedControls(lv, n) == IF lv > 0 THEN 1..n ELSE {}

\* TrainingApp.initialize up to the animation frame initializeUI awaits:
\* with the manifest fetched, the navigation buttons, the level panels,
\* the prerequisite checkboxes and the empty topic panels are rendered; a
\* failure is caught and logged, and initialize ends.
initialize(outcome) ==
    /\ appPc = "init"
    /\ IF outcome = "ok"
       THEN /\ appPc' = "rendered"
            /\ controls' = renderedControls(levels, prerequisites)
            /\ activeNav' = renderedActive(levels)
            /\ activeLevels' = renderedActive(levels)
            /\ startupLog' = <<"manifest", "rendered">>
            /\ lastCall' = Step("initialize", "-", "-", "rendered")
       ELSE /\ appPc' = "failed"
            /\ startupLog' =
                  IF outcome = "no_levels" THEN <<"manifest">> ELSE <<>>
            /\ lastCall' = Step("initialize", "-", "-", outcome)
            /\ UNCHANGED <<controls, activeNav, activeLevels>>
    /\ UNCHANGED viewer
    /\ UNCHANGED <<prerequisites, tutorialText,
                   levels, checked, localStorage, progress,
                   progressText, feedback, answerCalls, selected, pendingImports,
                   textAreas, thrown>>

\* showLevel: the class 'active' is removed from every button (every level
\* panel) and added to the one of level n.
showLevelAdding(marks, n) == marks \cup {n}
showLevelMarks(marks, n) == (marks \ marks) \cup {n}
\* showLevel throws when the document has no button or no panel of level n.
showLevelThrows(lv, n) == n \notin 1..lv

\* The startup step that throws, if any: loadProgress on a stored text it
\* cannot read, initializeNavigation when there is no first level.
startupFailure(ls, lv) ==
    IF loadThrows(ls) THEN "load_error"
    ELSE IF showLevelThrows(lv, 1) THEN "no_level_1"
    ELSE "ok"

\* TrainingApp.initialize from the animation frame on, in one turn:
\* setupEventListeners, countTotalItems, loadProgress and
\* initializeNavigation, which ends with showLevel(1); the first of them
\* to throw ends initialize in its catch block. The rendered page is first
\* painted after this turn, so no user event comes before it.
initializeCore ==
    /\ appPc = "rendered"
    /\ LET failure == startupFailure(localStorage, levels)
           counted == [progress EXCEPT
                          !.totalItems = countTotalItems(controls)]
       IN  /\ lastCall' = Step("initialize", "-", "-", failure)
           /\ IF failure = "load_error"
              THEN /\ appPc' = "failed"
                   /\ startupLog' = startupLog \o <<"wired", "counted">>
                   /\ progress' = counted
                   /\ UNCHANGED <<checked, activeNav, activeLevels>>
              ELSE /\ checked' = loadChecked(localStorage, controls, checked)
                   /\ progress' =
                         [counted EXCEPT
                            !.completedItems =
                               loadCompleted(localStorage, controls, @)]
                   /\ IF failure = "no_level_1"
                      THEN /\ appPc' = "failed"
                           /\ startupLog' =
                                 startupLog \o <<"wired", "counted", "loaded">>
                           /\ UNCHANGED <<activeNav, activeLevels>>
                      ELSE /\ appPc' = "ready"
                           /\ startupLog' =
                                 startupLog \o <<"wired", "counted", "loaded",
                                                 "navigation">>
                           /\ activeNav' = showLevelMarks(activeNav, 1)
                           /\ activeLevels' = showLevelMarks(activeLevels, 1)
    /\ UNCHANGED viewer
    /\ UNCHANGED <<prerequisites, tutorialText,
                   levels, controls, localStorage,
                   progressText, feedback, answerCalls, selected, pendingImports,
                   textAreas, thrown>>

\* A click on the navigation button of level n, whose listener runs
\* showLevel(n).
showLevel(n) ==
    /\ appPc = "ready"
    /\ n \in 1..levels
    /\ activeNav' = showLevelMarks(activeNav, n)
    /\ activeLevels' = showLevelMarks(activeLevels, n)
    /\ lastCall' = Step("showLevel", "-", "-", "-")
    /\ UNCHANGED viewer
    /\ UNCHANGED <<prerequisites, tutorialText,
                   levels, appPc, controls, checked,
                   localStorage, progress, progressText, feedback,
                   answerCalls, selected, pendingImports, textAreas, thrown,
                   startupLog>>

\* The page is loaded again: the document and every module start afresh,
\* durable storage stays.
reload ==
    /\ appPc # "init"
    /\ appPc' = "init"
    /\ controls' = {}
    /\ checked' = {}
    /\ progress' = [totalItems |-> 0, completedItems |-> 0]
    /\ progressText' = StaticText
    /\ feedback' = [e \in FeedbackIds |-> NoFeedback]
    /\ answerCalls' = NoCalls
    /\ selected' = NoSelection
    /\ pendingImports' = 0
    /\ panels' = [t \in Topics |-> EmptyPanel]
    /\ showCalls' = NoShows
    /\ activeNav' = {}
    /\ activeLevels' = {}
    /\ textAreas' = Templates
    /\ thrown' = {}
    /\ startupLog' = <<>>
    /\ lastCall' = Step("load", "-", "-", "-")
    /\ UNCHANGED <<prerequisites, tutorialText, levels, localStorage>>

\* A click on checkbox i, whose onchange handler runs updateProgress();
\* the handler is wired in the markup, so it also runs on a page whose
\* startup failed after the rendering.
updateProgress(i) ==
    /\ appPc \in {"ready", "failed"}
    /\ i \in controls
    /\ checked' = toggled(checked, i)
    /\ progress' = [progress EXCEPT !.completedItems = countChecked(checked')]
    /\ progressText' = updateProgressBar(progress')
    /\ localStorage' = saveProgress(localStorage, checked')
    /\ lastCall' = Step("updateProgress", "-", "-", "-")
    /\ UNCHANGED <<viewer, page>>
    /\ UNCHANGED <<prerequisites, tutorialText,
                   appPc, controls, feedback, answerCalls, selected,
                   pendingImports>>

\* resetProgress, with the user's answer to the confirm dialog.
\* removeItem of the checkbox list in place of clear().
resetStorageListOnly(ls, confirmed) ==
    IF confirmed THEN setItem(ls, ProgressKey, Null) ELSE ls
\* The checkboxes unchecked before the user has answered.
resetCheckedUnasked(chk, confirmed) == {}

resetStorage(ls, confirmed) == IF confirmed THEN clear(ls) ELSE ls
resetChecked(chk, confirmed) == IF confirmed THEN {} ELSE chk
resetCompleted(completed, confirmed) == IF confirmed THEN 0 ELSE completed
resetProgress(confirmed) ==
    /\ appPc = "ready"
    /\ localStorage' = resetStorage(localStorage, confirmed)
    /\ checked' = resetChecked(checked, confirmed)
    /\ progress' = [progress EXCEPT
                      !.completedItems = resetCompleted(@, confirmed)]
    /\ progressText' = IF confirmed THEN updateProgressBar(progress')
                       ELSE progressText
    /\ lastCall' = Step("resetProgress", "-", "-",
                        IF confirmed THEN "confirmed" ELSE "declined")
    /\ UNCHANGED <<viewer, page>>
    /\ UNCHANGED <<prerequisites, tutorialText,
                   appPc, controls, feedback, answerCalls, selected,
                   pendingImports>>

\* checkAnswer(q, a) up to its fetch of the quiz file.
checkAnswerCall(q, a) ==
    /\ appPc = "ready"
    /\ answerCalls' = [answerCalls EXCEPT ![<<q, a>>] = @ + 1]
    /\ selected' = [selected EXCEPT ![q] = a]
    /\ lastCall' = Step("checkAnswer", q, a, "fetch")
    /\ UNCHANGED <<viewer, page>>
    /\ UNCHANGED <<prerequisites, tutorialText,
                   appPc, controls, checked, localStorage,
                   progress, progressText, feedback, pendingImports>>

\* checkAnswer(q, a) from the fetch's result to its end or to the await of
\* the progress module.
checkAnswerResolve(q, a, outcome) ==
    /\ answerCalls[<<q, a>>] > 0
    /\ answerCalls' = [answerCalls EXCEPT ![<<q, a>>] = @ - 1]
    /\ selected' = selected
    /\ feedback' = [feedback EXCEPT ![q] = checkAnswerFeedback(q, a, outcome)]
    /\ localStorage' = checkAnswerStorage(localStorage, q, a, outcome)
    /\ pendingImports' = IF checkAnswerCredits(localStorage, q, a, outcome)
                         THEN pendingImports + 1 ELSE pendingImports
    /\ lastCall' = Step("checkAnswer", q, a, outcome)
    /\ UNCHANGED <<viewer, page>>
    /\ UNCHANGED <<prerequisites, tutorialText,
                   appPc, controls, checked, progress,
                   progressText>>

\* checkConfig on the text of the configuration exercise's text area.
checkConfig(text) ==
    /\ appPc = "ready"
    /\ feedback' = [feedback EXCEPT !["adv-config"] = checkConfigFeedback(text)]
    /\ localStorage' =
          exerciseStorage(localStorage, ConfigKey, checkConfigVerdict(text))
    /\ pendingImports' =
          IF exerciseCredits(localStorage, ConfigKey, checkConfigVerdict(text))
          THEN pendingImports + 1 ELSE pendingImports
    /\ lastCall' = Step("checkConfig", "-", "-", checkConfigVerdict(text))
    /\ textAreas' = [textAreas EXCEPT !["adv-config"] = text]
    /\ UNCHANGED <<viewer, navigation, thrown, startupLog>>
    /\ UNCHANGED <<prerequisites, tutorialText,
                   appPc, controls, checked, progress,
                   progressText, answerCalls, selected>>

\* checkAlgorithm on the text of the algorithm exercise's text area.
checkAlgorithm(text) ==
    /\ appPc = "ready"
    /\ feedback' = [feedback EXCEPT !["algo"] = checkAlgorithmFeedback(text)]
    /\ localStorage' =
          exerciseStorage(localStorage, AlgoKey, checkAlgorithmVerdict(text))
    /\ pendingImports' =
          IF exerciseCredits(localStorage, AlgoKey, checkAlgorithmVerdict(text))
          THEN pendingImports + 1 ELSE pendingImports
    /\ lastCall' = Step("checkAlgorithm", "-", "-", checkAlgorithmVerdict(text))
    /\ textAreas' = [textAreas EXCEPT !["algo"] = text]
    /\ UNCHANGED <<viewer, navigation, thrown, startupLog>>
    /\ UNCHANGED <<prerequisites, tutorialText,
                   appPc, controls, checked, progress,
                   progressText, answerCalls, selected>>

\* The rest of a crediting handler, after import('./progress.js'):
\* progress.completedItems++ and updateProgressBar().
creditCompleted(completed) == completed + 1
importResolve ==
    /\ pendingImports > 0
    /\ pendingImports' = pendingImports - 1
    /\ progress' = [progress EXCEPT !.completedItems = creditCompleted(@)]
    /\ progressText' = updateProgressBar(progress')
    /\ lastCall' = Step("credit", "-", "-", "-")
    /\ UNCHANGED <<viewer, page>>
    /\ UNCHANGED <<prerequisites, tutorialText,
                   appPc, controls, checked, localStorage,
                   feedback, answerCalls, selected>>

\* What the viewer leaves alone.
progressStore ==
    <<prerequisites, tutorialText, appPc, controls, checked, localStorage,
      progress, progressText, answerCalls, pendingImports>>

\* showTutorial(id) up to its first await: the other panels are hidden; a
\* loaded panel is toggled at once, for an unloaded one course.json is
\* fetched.
showTutorialCall(id) ==
    /\ appPc = "ready"
    /\ IF needsFetch(panels, id)
       THEN /\ panels' = hideOthers(panels, id)
            /\ showCalls' = [showCalls EXCEPT ![<<id, "course">>] = @ + 1]
            /\ lastCall' = Step("showTutorial", id, "-", "fetch")
       ELSE /\ panels' = toggleDisplay(hideOthers(panels, id), id)
            /\ showCalls' = showCalls
            /\ lastCall' = Step("showTutorial", id, "-", "toggle")
    /\ UNCHANGED <<progressStore, feedback, selected, page>>

\* showTutorial(id) from the result of the course.json fetch: the topic is
\* found and its content file fetched, or the catch block shows the error
\* and the panel is toggled.
courseResolve(id, outcome) ==
    /\ showCalls[<<id, "course">>] > 0
    /\ IF outcome = "found"
       THEN /\ showCalls' = [showCalls EXCEPT ![<<id, "course">>] = @ - 1,
                                              ![<<id, "content">>] = @ + 1]
            /\ panels' = panels
       ELSE /\ showCalls' = [showCalls EXCEPT ![<<id, "course">>] = @ - 1]
            /\ panels' = toggleDisplay(showError(panels, id), id)
    /\ lastCall' = Step("showTutorial", id, "course", outcome)
    /\ UNCHANGED <<progressStore, feedback, selected, page>>

\* showTutorial(id) from the result of the content fetch to its end: the
\* content is rendered and the panel marked loaded, or the catch block
\* shows the error; then the panel is toggled. A rendered quiz or exercise
\* brings fresh, empty feedback elements.
renderedFeedbackAs(fb, id, kind) ==
    [e \in FeedbackIds |->
        IF \/ (kind = "quiz" /\ e \in Questions)
           \/ (kind = "exercise" /\ e = id)
        THEN NoFeedback ELSE fb[e]]
renderedFeedback(fb, id) == renderedFeedbackAs(fb, id, TopicKind[id])
\* A rendered quiz brings fresh radio inputs, none of them checked.
renderedSelectedAs(sel, kind) ==
    [q \in Questions |-> IF kind = "quiz" THEN "-" ELSE sel[q]]
renderedSelected(sel, id) == renderedSelectedAs(sel, TopicKind[id])
\* A rendered exercise brings its text area, filled with the template.
renderedTextAreasAs(ta, id, kind) ==
    [e \in DOMAIN ta |->
        IF e = id /\ kind = "exercise" THEN Templates[e] ELSE ta[e]]
renderedTextAreas(ta, id) == renderedTextAreasAs(ta, id, TopicKind[id])
contentResolve(id, outcome) ==
    /\ showCalls[<<id, "content">>] > 0
    /\ showCalls' = [showCalls EXCEPT ![<<id, "content">>] = @ - 1]
    /\ IF renders(id, outcome)
       THEN /\ IF outcome = "other_shape"
               THEN /\ panels' = toggleDisplay(showOtherShape(panels, id), id)
                    /\ feedback' = renderedFeedbackAs(feedback, id,
                                                      rendering(id, outcome))
                    /\ textAreas' = renderedTextAreasAs(textAreas, id,
                                                        rendering(id, outcome))
                    /\ selected' = renderedSelectedAs(selected,
                                                      rendering(id, outcome))
                    /\ lastCall' = Step("showTutorial", id, "content",
                                        "rendered_other")
               ELSE /\ panels' = toggleDisplay(showContent(panels, id), id)
                    /\ feedback' = renderedFeedback(feedback, id)
                    /\ textAreas' = renderedTextAreas(textAreas, id)
                    /\ selected' = renderedSelected(selected, id)
                    /\ lastCall' = Step("showTutorial", id, "content",
                                        "rendered")
       ELSE /\ panels' = toggleDisplay(showError(panels, id), id)
            /\ feedback' = feedback
            /\ textAreas' = textAreas
            /\ selected' = selected
            /\ lastCall' = Step("showTutorial", id, "content", outcome)
    /\ UNCHANGED <<progressStore, navigation, thrown, startupLog>>

\* The panel whose text area and feedback element checkConfig reads, by
\* their ids 'adv-config-input' and 'adv-config-feedback'.
checkConfigPanel == "adv-config"
\* The elements checkConfig reads, 'adv-config-input' and
\* 'adv-config-feedback', are in the document when the panel of the topic
\* adv-config holds its rendered exercise.
configElementsPresent(ps) == ps["adv-config"].content = Rendered("adv-config")

\* A click on the 'Check Configuration' button rendered in the open
\* exercise panel id, with text in the text area of adv-config: the
\* button calls window.app.checkConfig(), which reads the value of the
\* element 'adv-config-input' before its try block and so rejects with a
\* TypeError when the document has no such element.
checkClick(id, text) ==
    /\ appPc = "ready"
    /\ TopicKind[id] = "exercise"
    /\ panels[id].content = Rendered(id)
    /\ panels[id].display = "block"
    /\ IF configElementsPresent(panels)
       THEN checkConfig(text)
       ELSE /\ thrown' = thrown \cup {"checkConfig"}
            /\ lastCall' = Step("checkConfig", id, "-", "thrown")
            /\ UNCHANGED <<viewer, navigation, textAreas, startupLog>>
            /\ UNCHANGED <<prerequisites, tutorialText,
                           appPc, controls, checked,
                           localStorage, progress, progressText, feedback,
                           answerCalls, selected, pendingImports>>

\* The steps of showTutorial for the topics of T, with at most cap
\* invocations suspended at a time.
showStep(T, cap) ==
    \/ \E id \in T : ShowsInFlight < cap /\ showTutorialCall(id)
    \/ \E id \in T, outcome \in CourseFetchOutcomes : courseResolve(id, outcome)
    \/ \E id \in T, outcome \in ContentFetchOutcomes :
          contentResolve(id, outcome)

\* The steps of checkAnswer for the questions of Q, with at most cap
\* invocations suspended at a time.
quizStep(Q, cap) ==
    \/ \E q \in Q, a \in Options : Suspended < cap /\ checkAnswerCall(q, a)
    \/ \E q \in Q, a \in Options, outcome \in QuizFetchOutcomes :
          checkAnswerResolve(q, a, outcome)

\* The page from its first load on: bootstrap, reload, the checkboxes, the
\* reset, and the three sources of credit (one quiz question, the two
\* exercises with a text that passes).
Next ==
    \/ \E outcome \in BootOutcomes : initialize(outcome)
    \/ initializeCore
    \/ reload
    \/ \E i \in ControlIds : updateProgress(i)
    \/ \E confirmed \in BOOLEAN : resetProgress(confirmed)
    \/ quizStep({"q1"}, MaxCalls)
    \/ Suspended < MaxCalls /\ checkConfig(GoodConfig)
    \/ Suspended < MaxCalls /\ checkAlgorithm(GoodAlgo)
    \/ importResolve

Spec == Init /\ [][Next]_vars

\* The quiz alone: any sequence of checkAnswer calls on a page loaded with
\* empty storage, their fetches overlapping and resolving in any order.
NextQuiz ==
    \/ \E outcome \in BootOutcomes : initialize(outcome)
    \/ initializeCore
    \/ quizStep(Questions, MaxOverlap)
    \/ importResolve

SpecQuiz == Init /\ [][NextQuiz]_vars

\* The checklist alone: manifests of up to MaxChecklist checkboxes, toggled
\* and reloaded.
InitChecklist ==
    /\ prerequisites \in 0..MaxChecklist
    /\ levels = MaxLevels
    /\ localStorage = EmptyStorage
    /\ tutorialText = SampleTutorial
    /\ FreshPage
    /\ lastCall = Step("load", "-", "-", "-")

NextChecklist ==
    \/ \E outcome \in BootOutcomes : initialize(outcome)
    \/ initializeCore
    \/ reload
    \/ \E i \in ControlIds : updateProgress(i)

SpecChecklist == InitChecklist /\ [][NextChecklist]_vars

\* The viewer alone, on a page bootstrapped from the manifest: the panels
\* opened in any order, the fetches of up to MaxShows calls overlapping and
\* resolving in any order.
InitViewer == Init /\ prerequisites = MaxControls

NextViewer ==
    \/ \E outcome \in BootOutcomes : initialize(outcome)
    \/ initializeCore
    \/ showStep(Topics, MaxShows)

SpecViewer == InitViewer /\ [][NextViewer]_vars

\* The viewer with one call at a time: a showTutorial call starts only
\* when the one before it has finished.
NextViewerSeq ==
    \/ \E outcome \in BootOutcomes : initialize(outcome)
    \/ initializeCore
    \/ showStep(Topics, 1)

SpecViewerSeq == InitViewer /\ [][NextViewerSeq]_vars

\* The dispatch of showTutorial: every topic opened, one call at a time,
\* its content file holding JSON of either shape.
NextDispatch ==
    \/ \E outcome \in BootOutcomes : initialize(outcome)
    \/ initializeCore
    \/ \E id \in Topics : ShowsInFlight < 1 /\ showTutorialCall(id)
    \/ \E id \in Topics, outcome \in CourseFetchOutcomes :
          courseResolve(id, outcome)
    \/ \E id \in Topics, outcome \in DispatchOutcomes :
          contentResolve(id, outcome)

SpecDispatch == InitViewer /\ [][NextDispatch]_vars

\* The renderer: the tutorial served with every markdown text of up to
\* MaxLines lines, opened and reopened.
InitMarkdown ==
    /\ prerequisites = 0
    /\ levels = MaxLevels
    /\ localStorage = EmptyStorage
    /\ tutorialText \in MarkdownTexts
    /\ FreshPage
    /\ lastCall = Step("load", "-", "-", "-")

NextMarkdown ==
    \/ \E outcome \in BootOutcomes : initialize(outcome)
    \/ initializeCore
    \/ showStep({"introduction"}, 1)

SpecMarkdown == InitMarkdown /\ [][NextMarkdown]_vars

\* The navigation, for manifests of up to MaxLevels levels: the level
\* buttons clicked in any order, between checkbox clicks and reloads.
InitNavigation ==
    /\ prerequisites \in 0..MaxControls
    /\ levels \in 0..MaxLevels
    /\ localStorage = EmptyStorage
    /\ tutorialText = SampleTutorial
    /\ FreshPage
    /\ lastCall = Step("load", "-", "-", "-")

NextNavigation ==
    \/ \E outcome \in BootOutcomes : initialize(outcome)
    \/ initializeCore
    \/ reload
    \/ \E n \in 1..MaxLevels : showLevel(n)
    \/ \E i \in ControlIds : updateProgress(i)

SpecNavigation == InitNavigation /\ [][NextNavigation]_vars

\* The configuration exercise alone: any text of ConfigInputs submitted,
\* any number of times.
NextConfig ==
    \/ \E outcome \in BootOutcomes : initialize(outcome)
    \/ initializeCore
    \/ \E text \in ConfigInputs : checkConfig(text)
    \/ importResolve

SpecConfig == InitViewer /\ [][NextConfig]_vars

\* The two exercises on one page, no reset: texts that pass and texts that
\* fail each of the checks, submitted in any order and any number of times,
\* a second check starting while the first awaits the progress module.
NextExercises ==
    \/ \E outcome \in BootOutcomes : initialize(outcome)
    \/ initializeCore
    \/ \E text \in ConfigTexts \cup {ConfigTemplate} : checkConfig(text)
    \/ \E text \in AlgoTexts \cup {AlgoTemplate} : checkAlgorithm(text)
    \/ importResolve

SpecExercises == Init /\ [][NextExercises]_vars

\* The algorithm exercise alone: every combination of the substrings
\* checkAlgorithm looks for, submitted in any order.
NextAlgorithm ==
    \/ \E outcome \in BootOutcomes : initialize(outcome)
    \/ initializeCore
    \/ \E text \in SUBSET AlgoTokens : checkAlgorithm(text)
    \/ importResolve

SpecAlgorithm == InitViewer /\ [][NextAlgorithm]_vars

\* The handlers of the rendered page: the two exercise panels and the quiz
\* panel opened one call at a time, the check button of an open exercise
\* panel clicked, an option of the quiz chosen.
NextHandlers ==
    \/ \E outcome \in BootOutcomes : initialize(outcome)
    \/ initializeCore
    \/ showStep({"basic-config", "adv-config"}, 1)
    \/ \E id \in Topics, text \in {GoodConfig, OversizeConfig} :
          checkClick(id, text)
    \/ quizStep({"q1"}, MaxCalls)
    \/ importResolve

SpecHandlers == InitViewer /\ [][NextHandlers]_vars

\* The startup sequence, for every manifest of up to MaxLevels levels and
\* MaxControls prerequisites, with nothing, a saved list or an unreadable
\* text in durable storage; then the checkboxes and reloads.
InitStartup ==
    /\ prerequisites \in 0..MaxControls
    /\ levels \in 0..MaxLevels
    /\ localStorage \in
          {EmptyStorage, setItem(EmptyStorage, ProgressKey, Garbage),
           setItem(EmptyStorage, ProgressKey, JsonIds({1}))}
    /\ tutorialText = SampleTutorial
    /\ FreshPage
    /\ lastCall = Step("load", "-", "-", "-")

NextStartup ==
    \/ \E outcome \in BootOutcomes : initialize(outcome)
    \/ initializeCore
    \/ reload
    \/ \E i \in ControlIds : updateProgress(i)

SpecStartup == InitStartup /\ [][NextStartup]_vars

\* ------------------------------------------------------------------ claims
QuizFlags(ls) == {q \in Questions : getItem(ls, QuizKey(q)).tag # "null"}
CreditFlags(ls) == {k \in CreditKeys : getItem(ls, k).tag # "null"}
StoredIds(ls) == getItem(ls, ProgressKey).ids
CorrectFeedback(q) ==
    [textContent |-> QuizData[q].feedback.correct,
     className |-> "feedback correct"]
IncorrectFeedback(q) ==
    [textContent |-> QuizData[q].feedback.incorrect,
     className |-> "feedback incorrect"]
\* The integer nearest to 100 k / n, a half rounded upwards.
RoundedPercent(k, n) ==
    CHOOSE p \in 0..100 :
        (2 * p - 1) * n <= 200 * k /\ 200 * k < (2 * p + 1) * n
\* The ways a load fails: the awaited fetch and what it gave.
\* The number a spelling denotes, in thousandths.
Thousandths(w) == 1000 * w.whole + (IF w.dot THEN w.milli ELSE 0)
\* A value is written and lies in (0, hi].
InRange(w, hi) ==
    w.written /\ Thousandths(w) > 0 /\ Thousandths(w) <= 1000 * hi
ExerciseFlags(ls) == {k \in {ConfigKey, AlgoKey} : getItem(ls, k) # Null}
\* The three components of a Bollinger-band implementation, as substrings
\* of the submitted text.
MovingAverage(text) ==
    /\ "ma_period" \in text
    /\ \E call \in {"rolling().mean()", "rolling().average()"} : call \in text
StandardDeviation(text) == {"std_dev", "rolling().std()"} \subseteq text
BothBands(text) == {"upper_band", "lower_band"} \subseteq text
\* The startup sequence, and for each way it fails the step that fails.
StartupSteps ==
    <<"manifest", "rendered", "wired", "counted", "loaded", "navigation">>
FailingStep ==
    [f \in {"http_error", "no_levels", "load_error", "no_level_1"} |->
        IF f = "http_error" THEN "manifest"
        ELSE IF f = "no_levels" THEN "rendered"
        ELSE IF f = "load_error" THEN "loaded" ELSE "navigation"]
StepsBefore(step) ==
    LET i == CHOOSE k \in 1..Len(StartupSteps) : StartupSteps[k] = step
    IN  SubSeq(StartupSteps, 1, i - 1)
LoadFailures ==
    {<<"course", "http_error">>, <<"course", "absent">>,
     <<"content", "http_error">>, <<"content", "malformed">>}

\* C1: in any run of checkAnswer calls (no reset, fetches overlapping and
\* resolving in any order) a correct submission leaves the question's
\* correct-feedback text with the positive style and the question's flag
\* set, and the counter, with the increments still awaiting the progress
\* module, equals the number of questions answered correctly at least once:
\* the first correct submission of a question adds exactly one, a later
\* one adds nothing.
C1_CreditedOnce ==
    /\ progress.completedItems + pendingImports
          = Cardinality(QuizFlags(localStorage))
    /\ \A q \in Questions :
          lastCall = Step("checkAnswer", q, QuizData[q].correctAnswer, "found")
             => /\ feedback[q] = CorrectFeedback(q)
                /\ q \in QuizFlags(localStorage)

\* A correct submission of q1 has resolved after q1's credit was applied,
\* and the counter is still 1.
C1_Witness ==
    /\ lastCall = Step("checkAnswer", "q1", "b", "found")
    /\ progress.completedItems = 1
    /\ pendingImports = 0
    /\ QuizFlags(localStorage) = {"q1"}

\* C2: a checkAnswer whose option is not the question's correct option
\* writes the incorrect-feedback text with the negative style into the
\* question's feedback element and changes nothing else: the counters, the
\* visible percentage, durable storage (so the question's flag stays unset
\* and a later correct submission is credited), the checkboxes, the other
\* feedback elements and the pending credits are as before.
C2_MismatchFrame ==
    [][\A q \in Questions, a \in Options :
          (/\ lastCall' = Step("checkAnswer", q, a, "found")
           /\ a # QuizData[q].correctAnswer)
             => /\ feedback'[q] = IncorrectFeedback(q)
                /\ \A e \in FeedbackIds \ {q} : feedback'[e] = feedback[e]
                /\ UNCHANGED <<progress, progressText, localStorage, checked,
                               controls, pendingImports>>]_vars

\* A wrong option of q1 has just been judged on a page that has a checked
\* checkbox, a credit and no flag for q1.
C2_Witness ==
    /\ lastCall = Step("checkAnswer", "q1", "a", "found")
    /\ feedback["q1"] = IncorrectFeedback("q1")
    /\ progress.completedItems > 0
    /\ checked # {}
    /\ "q1" \notin QuizFlags(localStorage)

\* C3: after a reload (countTotalItems, then loadProgress) the completed
\* counter equals the number of checked and completed identifiers in
\* durable storage: the ids of the checkbox list and the quiz and exercise
\* flags.
C3_ReloadCountsStored ==
    lastCall = Step("initialize", "-", "-", "ok")
       => progress.completedItems
             = Cardinality(StoredIds(localStorage))
               + Cardinality(CreditFlags(localStorage))

\* C4: with N checkboxes in the manifest and k of them recorded as checked
\* in durable storage, the percentage computed after load() is
\* round(k / N * 100): the integer p with p - 1/2 <= 100 k / N < p + 1/2
\* (0 / 0 is NaN).
C4_LoadPercentage ==
    lastCall = Step("initialize", "-", "-", "ok")
       => LET k == Cardinality(StoredIds(localStorage))
              n == prerequisites
          IN  updateProgressBar(progress)
                 = IF n = 0 THEN NaN ELSE Num(RoundedPercent(k, n))

\* The page has been loaded with 3 of 8 checkboxes recorded as checked
\* (37.5, shown as 38).
C4_Witness ==
    /\ lastCall = Step("initialize", "-", "-", "ok")
    /\ prerequisites = 8
    /\ Cardinality(StoredIds(localStorage)) = 3
    /\ updateProgressBar(progress) = Num(38)

\* C5: after every updateProgress the counter is the number of checked
\* checkboxes, and toggling a checked checkbox off and on again leaves the
\* counter at the value it has now.
C5_ToggleKeepsCounter ==
    appPc = "ready"
       => /\ lastCall.op = "updateProgress"
                => progress.completedItems = Cardinality(checked)
          /\ \A i \in checked :
                countChecked(toggled(toggled(checked, i), i))
                   = progress.completedItems

\* C6: a confirmed resetProgress leaves durable storage without any key,
\* every checkbox unchecked and the counter 0; no id of the list persisted
\* before it is persisted after it.
C6_ResetClears ==
    [][lastCall' = Step("resetProgress", "-", "-", "confirmed")
          => /\ \A k \in StorageKeys : getItem(localStorage', k) = Null
             /\ checked' = {}
             /\ progress'.completedItems = 0
             /\ \A i \in StoredIds(localStorage) :
                   i \notin StoredIds(localStorage')]_vars

\* A confirmed reset has just run.
C6_Witness ==
    /\ lastCall = Step("resetProgress", "-", "-", "confirmed")
    /\ prerequisites > 0
    /\ progressText = Num(0)

\* C7: a declined resetProgress changes nothing: durable storage, the
\* checkboxes, both counters and the visible percentage are as before.
C7_DeclinedResetNoOp ==
    [][lastCall' = Step("resetProgress", "-", "-", "declined")
          => UNCHANGED <<localStorage, checked, controls, progress,
                         progressText, feedback, answerCalls,
                         pendingImports, appPc>>]_vars

\* A reset has just been declined on a page with a checked checkbox, a
\* credit flag and a nonzero counter.
C7_Witness ==
    /\ lastCall = Step("resetProgress", "-", "-", "declined")
    /\ checked # {}
    /\ CreditFlags(localStorage) # {}
    /\ progress.completedItems > 0
    /\ progressText.kind = "num" /\ progressText.n > 0

\* C8: with no checkbox to track, every refresh of the visible percentage
\* shows 0%.
C8_ZeroTotalShowsZero ==
    (/\ appPc = "ready"
     /\ progress.totalItems = 0
     /\ progressText # StaticText)
       => progressText = Num(0)

\* C9: of two showTutorial(id) calls in a row, the first completing a
\* successful load before the second starts, the first leaves the panel
\* open, and the second, finding the panel loaded and open, closes it and
\* fetches nothing.
C9_OpenThenClosed ==
    [][\A id \in Topics :
          /\ lastCall' = Step("showTutorial", id, "content", "rendered")
                => panels'[id].display = "block"
          /\ (/\ lastCall = Step("showTutorial", id, "content", "rendered")
              /\ lastCall' = Step("showTutorial", id, "-", "toggle"))
                => /\ panels'[id].display = "none"
                   /\ showCalls' = showCalls]_vars

\* C10: a showTutorial(id) call whose load fails (course.json not
\* fetched, the topic absent from it, the content file not fetched, JSON
\* that does not parse) leaves the inline error message in the panel, does
\* not set the panel's loaded flag, leaves every other panel's content and
\* loaded flag as they were, and the next showTutorial(id) fetches again.
C10_FailedLoadRetries ==
    [][\A id \in Topics, f \in LoadFailures :
          lastCall' = Step("showTutorial", id, f[1], f[2])
             => /\ panels'[id].content = ErrorContent
                /\ panels'[id].loaded = panels[id].loaded
                /\ \A t \in Topics \ {id} :
                      /\ panels'[t].content = panels[t].content
                      /\ panels'[t].loaded = panels[t].loaded
                /\ needsFetch(panels', id)]_vars

\* C11: whenever a showTutorial call finishes leaving its panel open, no
\* other topic panel is visible, also when calls for different topics
\* overlap.
C11_OnlyOpenPanel ==
    \A id \in Topics :
        (/\ lastCall.op = "showTutorial"
         /\ lastCall.q = id
         /\ lastCall.r # "fetch"
         /\ panels[id].display = "block")
           => \A t \in Topics \ {id} : panels[t].display # "block"

\* C12: loads of different topics do not interfere, in whatever order
\* their fetches resolve: a step of showTutorial(id) leaves the content
\* and the loaded flag of every other panel as they were; it writes the
\* rendering of its own topic and sets its own loaded flag when its load
\* succeeded, writes the error and leaves the flag alone when its load
\* failed, and writes neither while it is suspended.
C12_LoadsIndependent ==
    [][\A id \in Topics :
          (lastCall'.op = "showTutorial" /\ lastCall'.q = id)
             => /\ \A t \in Topics \ {id} :
                      /\ panels'[t].content = panels[t].content
                      /\ panels'[t].loaded = panels[t].loaded
                /\ lastCall'.r = "rendered"
                      => /\ panels'[id].content = Rendered(id)
                         /\ panels'[id].loaded
                /\ <<lastCall'.a, lastCall'.r>> \in LoadFailures
                      => /\ panels'[id].content = ErrorContent
                         /\ panels'[id].loaded = panels[id].loaded
                /\ lastCall'.r \in {"fetch", "toggle", "found"}
                      => /\ panels'[id].content = panels[id].content
                         /\ panels'[id].loaded = panels[id].loaded]_vars

\* The load of one topic has just succeeded while the load of another,
\* started before it, is still awaiting its content file, beside a third
\* panel whose own load failed.
C12_Witness ==
    /\ lastCall = Step("showTutorial", "introduction", "content", "rendered")
    /\ showCalls[<<"trading-modes", "content">>] > 0
    /\ ~panels["trading-modes"].loaded
    /\ panels["adv-config"].content = ErrorContent
    /\ ~panels["adv-config"].loaded
    /\ panels["introduction"].loaded

\* C13: every showTutorial(id) call that finds the panel unloaded fetches,
\* also while an earlier call for the same topic is awaiting its fetch;
\* each result is written to the panel as it resolves, the later write
\* replacing the earlier one; and of two loads that succeed one after the
\* other the second leaves the one rendering of the topic and the loaded
\* flag as the first left them.
C13_LastWriteWins ==
    [][\A id \in Topics :
          (lastCall'.op = "showTutorial" /\ lastCall'.q = id)
             => /\ lastCall'.r \in {"fetch", "toggle"}
                      => /\ (lastCall'.r = "fetch") <=> ~panels[id].loaded
                         /\ lastCall'.r = "fetch"
                               => showCalls'[<<id, "course">>] =
                                     showCalls[<<id, "course">>] + 1
                /\ lastCall'.r = "rendered"
                      => panels'[id] =
                            [panels[id] EXCEPT
                               !.content = Rendered(id),
                               !.loaded = TRUE,
                               !.display = IF @ = "block" THEN "none"
                                           ELSE "block"]
                /\ <<lastCall'.a, lastCall'.r>> \in LoadFailures
                      => panels'[id].content = ErrorContent
                /\ (lastCall = lastCall' /\ lastCall'.r = "rendered")
                      => /\ panels'[id].content = panels[id].content
                         /\ panels'[id].loaded = panels[id].loaded]_vars

\* The first of two overlapping loads of one topic has rendered while the
\* second is still awaiting its content file.
C13_Witness ==
    /\ lastCall = Step("showTutorial", "trading-modes", "content", "rendered")
    /\ showCalls[<<"trading-modes", "content">>] > 0
    /\ panels["trading-modes"].content = Rendered("trading-modes")
    /\ panels["trading-modes"].loaded

\* C14: once startup has finished, and after every showLevel call made
\* from a navigation button, exactly one level panel and exactly one
\* navigation button are active, and they are of the same level; startup
\* leaves level 1 active; and showLevel for the level just shown, called
\* again, leaves the markers as they are.
C14_OneActiveLevel ==
    /\ appPc = "ready"
          => /\ Cardinality(activeNav) = 1
             /\ Cardinality(activeLevels) = 1
             /\ activeNav = activeLevels
    /\ lastCall = Step("initialize", "-", "-", "ok")
          => /\ activeNav = {1}
             /\ activeLevels = {1}
    /\ lastCall.op = "showLevel"
          => \A n \in activeNav :
                /\ showLevelMarks(activeNav, n) = activeNav
                /\ showLevelMarks(activeLevels, n) = activeLevels

\* showLevel has just moved the markers from the first level to the last.
C14_Witness ==
    /\ lastCall.op = "showLevel"
    /\ levels = MaxLevels
    /\ activeNav = {MaxLevels}
    /\ activeLevels = {MaxLevels}
    /\ MaxLevels > 1

\* C15: for a text without placeholder and with all four keys, checkConfig
\* shows the positive message exactly when the position size is in
\* (0,1000], the portfolio exposure in (0,1], the daily loss in (0,10000]
\* and the drawdown in (0,1], the ends 1000, 1, 10000 and 1 included, and
\* the 'outside reasonable ranges' message otherwise.
C15_RangesDecideVerdict ==
    LET text == textAreas["adv-config"]
    IN  (/\ lastCall.op = "checkConfig"
         /\ ~text.placeholders
         /\ text.keys = ConfigParams)
           => feedback["adv-config"] =
                 IF /\ InRange(text.position_size, 1000)
                    /\ InRange(text.portfolio_exposure, 1)
                    /\ InRange(text.daily_loss, 10000)
                    /\ InRange(text.drawdown, 1)
                 THEN [textContent |-> "Configuration looks good! The values are within reasonable ranges.",
                       className |-> "feedback correct"]
                 ELSE [textContent |-> "Some values appear to be outside reasonable ranges. Please review your configuration.",
                       className |-> "feedback incorrect"]

\* C16: over any sequence of checkConfig and checkAlgorithm calls with no
\* reset, each exercise adds at most one to the completed counter (the
\* counter and the credits still awaiting their increment add up to the
\* number of exercise flags in storage), and a check that fails
\* (placeholder, missing key or component, value out of range) changes
\* neither the counter nor storage.
C16_ExerciseCreditedOnce ==
    /\ [](/\ progress.completedItems + pendingImports =
                Cardinality(ExerciseFlags(localStorage))
          /\ progress.completedItems <= 2)
    /\ [][(/\ lastCall'.op \in {"checkConfig", "checkAlgorithm"}
           /\ lastCall'.r # "good")
             => UNCHANGED <<localStorage, progress, pendingImports>>]_vars

\* Both exercises have been credited, and the configuration check has
\* just passed once more.
C16_Witness ==
    /\ lastCall = Step("checkConfig", "-", "-", "good")
    /\ progress.completedItems = 2
    /\ pendingImports = 0
    /\ ExerciseFlags(localStorage) = {ConfigKey, AlgoKey}

\* C17: checkAlgorithm rejects a text that still holds a placeholder;
\* otherwise it shows the positive feedback and records the completion
\* (the storage flag set, and the credit on its way to the counter if the
\* flag was not set before) exactly when the moving average, the standard
\* deviation and both bands are present, and shows the 'Implementation
\* incomplete' message, recording nothing, when one of the three is
\* missing.
C17_AlgorithmVerdict ==
    [][lastCall'.op = "checkAlgorithm"
          => LET text == textAreas'["algo"]
                 shown == feedback'["algo"]
             IN  IF "???" \in text
                 THEN /\ shown.textContent =
                            "Please replace all ??? with appropriate code."
                      /\ shown.className = "feedback incorrect"
                      /\ UNCHANGED <<localStorage, progress, pendingImports>>
                 ELSE IF /\ MovingAverage(text)
                         /\ StandardDeviation(text)
                         /\ BothBands(text)
                 THEN /\ shown.textContent =
                            "Algorithm implementation looks good! The components are properly structured."
                      /\ shown.className = "feedback correct"
                      /\ getItem(localStorage', AlgoKey) = Completed
                      /\ pendingImports' =
                            IF getItem(localStorage, AlgoKey) = Null
                            THEN pendingImports + 1 ELSE pendingImports
                 ELSE /\ shown.textContent =
                            "Implementation incomplete. Make sure to include moving average, standard deviation, and bands calculation."
                      /\ shown.className = "feedback incorrect"
                      /\ UNCHANGED <<localStorage, progress,
                                     pendingImports>>]_vars

\* A text with the moving average written with average(), the standard
\* deviation and both bands has just been accepted and flagged.
C17_Witness ==
    /\ lastCall = Step("checkAlgorithm", "-", "-", "good")
    /\ textAreas["algo"] = AlgoTokens \ {"???", "rolling().mean()"}
    /\ feedback["algo"].className = "feedback correct"
    /\ getItem(localStorage, AlgoKey) = Completed
    /\ pendingImports = 1

\* C18: no handler of the rendered page ever rejects to its caller, in
\* any reachable page state; and a checkAnswer whose fetch or question
\* lookup failed leaves the generic error feedback and no credit (the
\* counter and the credits awaiting their increment still add up to the
\* flags in storage).
C18_NothingThrown ==
    /\ thrown = {}
    /\ (/\ lastCall.op = "checkAnswer"
        /\ lastCall.r \in {"http_error", "no_question"})
          => /\ feedback[lastCall.q] = ErrorFeedback
             /\ progress.completedItems + pendingImports =
                   Cardinality(CreditFlags(localStorage))

\* C19: when a step of the startup sequence fails (the manifest is not
\* fetched or parsed, the rendering throws, loadProgress throws on what is
\* stored, initializeNavigation finds no first level), initialize ends in
\* its catch block: exactly the steps before the failing one have run,
\* what was rendered, checked and counted as completed before the failing
\* step is as it was, and no startup step is run again: until the page is
\* loaded anew it stays as the failure left it, but for what the user's
\* clicks on the rendered checkboxes change.
C19_StartupFailureStops ==
    [][/\ (/\ appPc = "rendered"
           /\ (getItem(localStorage, ProgressKey) = Garbage \/ levels = 0))
             => \/ lastCall'.op = "load"
                \/ /\ lastCall'.op = "initialize"
                   /\ lastCall'.r \in DOMAIN FailingStep
       /\ (lastCall'.op = "initialize" /\ lastCall'.r \in DOMAIN FailingStep)
             => /\ appPc' = "failed"
                /\ startupLog' = StepsBefore(FailingStep[lastCall'.r])
                /\ UNCHANGED <<controls, panels, activeNav, activeLevels>>
                /\ FailingStep[lastCall'.r] = "loaded"
                      => /\ checked' = checked
                         /\ progress'.completedItems = progress.completedItems
       /\ appPc = "failed"
             => \/ lastCall'.op = "load"
                \/ UNCHANGED <<appPc, startupLog, controls, panels,
                               activeNav, activeLevels>>]_vars

\* loadProgress has just thrown on an unreadable stored text: the page is
\* rendered, wired and counted, nothing is loaded, the first level is
\* active as rendered.
C19_Witness ==
    /\ lastCall = Step("initialize", "-", "-", "load_error")
    /\ appPc = "failed"
    /\ controls # {}
    /\ progress.totalItems = Cardinality(controls)
    /\ progress.completedItems = 0
    /\ activeNav = {1}
    /\ startupLog = <<"manifest", "rendered", "wired", "counted">>

\* C20: with one showTutorial call at a time, the course manifest is
\* fetched once in a page session (no call fetches it once startup has
\* loaded it), and a topic's content file is not fetched again once it
\* has loaded successfully (so its fetches number at most one more than
\* its failed loads).
C20_FetchedOnce ==
    [][\A id \in Topics :
          /\ lastCall' = Step("showTutorial", id, "-", "fetch")
                => ~\E k \in 1..Len(startupLog) : startupLog[k] = "manifest"
          /\ lastCall' = Step("showTutorial", id, "course", "found")
                => ~panels[id].loaded]_vars


\* C21: the quiz definition file checkAnswer fetches for a question is the
\* file showTutorial fetches to render the panel of that question: same
\* course directory, same content filename.
C21_SameQuizFile ==
    [][\A q \in Questions, a \in Options :
          lastCall' = Step("checkAnswer", q, a, "fetch")
              => fetchOf(lastCall') = contentPath(QuizOf(q))]_vars


\* Every topic panel is as rendered at startup: empty, unloaded, not open.
EveryPanelEmpty == panels = [t \in Topics |-> EmptyPanel]

\* C22: a startup that completes runs its steps in this order: manifest
\* fetched, levels and topic panels rendered (every topic panel empty and
\* unloaded), handlers wired, checkboxes counted, stored progress loaded,
\* navigation initialized. The count is taken after the rendering (it
\* finds the rendered checkboxes) and not before the second half of
\* initialize; no showTutorial call is in flight and no panel has content
\* until startup has completed, and a content file is fetched only within
\* a showTutorial call a user's click has started.
C22_StartupOrder ==
    /\ [](appPc = "ready"
            => /\ startupLog = StartupSteps
               /\ progress.totalItems = Cardinality(controls))
    /\ [](appPc \in {"init", "rendered"}
            => /\ EveryPanelEmpty
               /\ showCalls = NoShows
               /\ progress.totalItems = 0
               /\ checked = {})
    /\ [][/\ lastCall' = Step("initialize", "-", "-", "rendered")
             => /\ appPc = "init"
                /\ startupLog' = <<"manifest", "rendered">>
                /\ controls' = 1..prerequisites
          /\ (lastCall'.op = "initialize" /\ appPc' = "ready")
             => /\ appPc = "rendered"
                /\ startupLog = <<"manifest", "rendered">>
                /\ startupLog' = StartupSteps
                /\ controls' = controls
                /\ progress'.totalItems = Cardinality(controls)
                /\ EveryPanelEmpty'
          /\ \A id \in Topics :
                fetchOf(lastCall') = contentPath(id)
                   => /\ appPc = "ready"
                      /\ showCalls[<<id, "course">>] > 0]_vars

\* Startup has just completed on a manifest with checkboxes: all six steps
\* have run, the checkboxes are counted, every panel is empty.
C22_Witness ==
    /\ lastCall = Step("initialize", "-", "-", "ok")
    /\ appPc = "ready"
    /\ startupLog = StartupSteps
    /\ controls # {}
    /\ progress.totalItems = Cardinality(controls)
    /\ EveryPanelEmpty


\* C23: once startup has completed, the id list in durable storage is the
\* set of ids of the checked checkboxes, an absent key counting as the
\* empty list; every click on a checkbox stores the list in the handler
\* run that changes the set, whatever else is in flight.
C23_StoredListIsChecked ==
    /\ [](appPc = "ready" => StoredIds(localStorage) = checked)
    /\ [][lastCall' = Step("updateProgress", "-", "-", "-")
             => /\ checked' # checked
                /\ StoredIds(localStorage') = checked'
                /\ getItem(localStorage', ProgressKey) = JsonIds(checked')]_vars

\* A checkbox has just been cleared while another stays checked: the stored
\* list holds the one that stays.
C23_Witness ==
    /\ appPc = "ready"
    /\ lastCall = Step("updateProgress", "-", "-", "-")
    /\ checked = {1}
    /\ controls = {1, 2}
    /\ progress.completedItems = 1
    /\ getItem(localStorage, ProgressKey) = JsonIds({1})


\* C26: the completed counter never exceeds the total of trackable items,
\* so the percentage shown lies between 0 and 100, whatever the order of
\* checkbox toggles, correct quiz answers, passed exercises and resets
\* (stated for pages with a checkbox: the empty total is the case of C8).
C26_CompletedWithinTotal ==
    progress.totalItems > 0
        => /\ progress.completedItems <= progress.totalItems
           /\ progressText.kind = "num" => progressText.n \in 0..100

\* C27: a credit for a correct quiz answer or a passed exercise stays in
\* the counter until the reset: after a checkbox toggle, with no credit
\* still to be added, the counter is the number of checked checkboxes plus
\* the number of credit flags in durable storage.
C27_CreditsKept ==
    [][(lastCall' = Step("updateProgress", "-", "-", "-")
            /\ pendingImports' = 0)
          => progress'.completedItems =
                Cardinality(checked')
                    + Cardinality(CreditFlags(localStorage'))]_vars

\* C28: on the ready page with no credit still to be added, the percentage
\* text (and the bar width written with it) is round(completed / total *
\* 100) for the current counters, the static '0% Complete' of the markup
\* standing for the number 0 (stated for pages with a checkbox: the empty
\* total is the case of C8).
C28_TextShowsCounters ==
    (appPc = "ready" /\ pendingImports = 0 /\ progress.totalItems > 0)
        => \/ progressText = updateProgressBar(progress)
           \/ /\ progressText = StaticText
              /\ updateProgressBar(progress) = Num(0)


\* C29: a showTutorial(id) call that fetches and renders the content
\* leaves the panel visible, with the content and marked loaded, when it
\* finishes; so does the retry that succeeds after a failed load has left
\* the inline error showing.
C29_LoadedPanelOpen ==
    [][\A id \in Topics :
          lastCall' = Step("showTutorial", id, "content", "rendered")
             => /\ panels'[id].content = Rendered(id)
                /\ panels'[id].loaded
                /\ panels'[id].display = "block"]_vars


\* C30: once every checkAnswer call for a question has resolved, the
\* feedback shown for the question is that of the option selected last
\* (or the error message, when a fetch failed), in whatever order the
\* fetches of the successive selections resolved.
C30_FeedbackOfLastSelection ==
    \A q \in Questions :
        (/\ selected[q] # "-"
         /\ \A a \in Options : answerCalls[<<q, a>>] = 0)
           => \/ feedback[q] = checkAnswerFeedback(q, selected[q], "found")
              \/ feedback[q] = ErrorFeedback


\* The text of the code blocks of an HTML: its tokens from the opening tag
\* of a code block to the closing tag.
RECURSIVE codeText(_, _)
codeText(html, inside) ==
    IF html = <<>> THEN <<>>
    ELSE IF Head(html) = Html.hljsOpenCode
         THEN <<Head(html)>> \o codeText(Tail(html), TRUE)
    ELSE IF Head(html) = Html.closeCode
         THEN <<Head(html)>> \o codeText(Tail(html), FALSE)
    ELSE IF inside THEN <<Head(html)>> \o codeText(Tail(html), TRUE)
    ELSE codeText(Tail(html), FALSE)

\* C24: the collapsing of runs of blank lines changes only text outside
\* code blocks: the text inside every code block of a rendered tutorial,
\* its blank lines included, is what the converter produced before the
\* collapsing step.
C24_CodeBlocksKept ==
    panels["introduction"].content = Rendered("introduction")
        => codeText(tutorialHtml(panels, "introduction", tutorialText), FALSE)
              = codeText(makeHtml(tutorialText), FALSE)


\* C25: showTutorial takes the content file from the tutorials directory
\* for a topic of type tutorial and from the exercises directory for every
\* other type, and renders a tutorial as markdown, any other topic whose
\* JSON has questions as a quiz (one radio input per option, its change
\* wired to checkAnswer with the ids of the question and the option, fresh
\* feedback elements), and any other topic whose JSON has no questions as
\* an exercise (text area with the template, check button, feedback area).
C25_DispatchByTypeAndShape ==
    [][\A id \in Topics :
          /\ lastCall' = Step("showTutorial", id, "course", "found")
                => fetchOf(lastCall') =
                      "./courses/quantum-object-trading/content/"
                         \o (IF TopicKind[id] = "tutorial"
                             THEN "tutorials/" ELSE "exercises/")
                         \o TopicContent[id]
          /\ \A r \in {"rendered", "rendered_other"} :
                lastCall' = Step("showTutorial", id, "content", r)
                   => LET questions ==
                              (TopicKind[id] = "quiz") = (r = "rendered")
                          content == panels'[id].content
                      IN  /\ content.topic = id
                          /\ TopicKind[id] = "tutorial"
                                => /\ content.kind = "markdown"
                                   /\ radioInputs(content) = {}
                                   /\ exerciseElements(content) = {}
                          /\ (TopicKind[id] # "tutorial" /\ questions)
                                => /\ content.kind = "quiz"
                                   /\ {i.change : i \in radioInputs(content)}
                                        = {<<"checkAnswer", q, a>> :
                                              q \in Questions, a \in Options}
                                   /\ \A q \in Questions :
                                         /\ feedback'[q] = NoFeedback
                                         /\ selected'[q] = "-"
                                   /\ exerciseElements(content) = {}
                          /\ (TopicKind[id] # "tutorial" /\ ~questions)
                                => /\ content.kind = "exercise"
                                   /\ radioInputs(content) = {}
                                   /\ Cardinality(exerciseElements(content)) = 3
                                   /\ id \in DOMAIN textAreas
                                         => /\ textAreas'[id] = Templates[id]
                                            /\ feedback'[id] = NoFeedback]_vars

\* The file of the exercise topic 'adv-config' held questions and was
\* rendered as a quiz.
C25_Witness ==
    /\ lastCall = Step("showTutorial", "adv-config", "content",
                       "rendered_other")
    /\ panels["adv-config"].content.kind = "quiz"
    /\ panels["adv-config"].loaded
    /\ panels["adv-config"].display = "block"


\* C31: each quiz question and each exercise adds at most one to the
\* completed counter, also when a reset comes while a crediting handler is
\* suspended between setting its flag and incrementing: the counter never
\* exceeds the number of checked checkboxes plus the number of credit
\* flags in durable storage.
C31_CreditsBoundedByFlags ==
    progress.completedItems
        <= Cardinality(checked) + Cardinality(CreditFlags(localStorage))


\* The exercise panel that is open with its rendered exercise, whose check
\* button a click can reach.
OpenExercise(id) ==
    /\ TopicKind[id] = "exercise"
    /\ panels[id].content = Rendered(id)
    /\ panels[id].display = "block"

\* C32: the check button of an exercise panel validates the text area of
\* that panel and writes the verdict into the feedback area of that panel,
\* whichever other panels are loaded: a click in the open exercise panel
\* id runs a check that does not throw, reads the text area of id and
\* writes the feedback element of id alone.
C32_CheckOwnPanel ==
    [][\A id \in Topics :
          (OpenExercise(id) /\ lastCall'.op = "checkConfig")
             => /\ lastCall'.r # "thrown"
                /\ checkConfigPanel = id
                /\ \A e \in FeedbackIds \ {id} : feedback'[e] = feedback[e]]_vars


\* C33: a panel whose loaded flag is set holds the rendered content of its
\* topic, never the inline error message, also after overlapping
\* showTutorial calls for one topic of which one succeeds and one fails.
C33_LoadedHoldsContent ==
    \A id \in Topics :
        panels[id].loaded
            => /\ panels[id].content = Rendered(id)
               /\ panels[id].content # ErrorContent

====
